---------------------------- MODULE Spec2Model ----------------------------
(***************************************************************************)
(* Arena generation (arena.rs, arena_rooms.rs) and grid-aware movement     *)
(* (player.rs, enemy.rs) of rusty-gungeon.                                 *)
(*                                                                         *)
(* Numbers.  World coordinates are f32 in the program.  Here they are      *)
(* fixed-point integers counted in ticks of f32::EPSILON = 2^-23 world     *)
(* units, so that TILE_SIZE, the sprite sizes, the arena offsets and       *)
(* f32::EPSILON itself are all exact integers.  usize values that can      *)
(* wrap are pairs <<k, r>> standing for k * 2^63 + r (see the U section).  *)
(***************************************************************************)
EXTENDS Integers, Sequences, FiniteSets, TLC

VARIABLES
    strategy,     \* "cave" (arena.rs) | "room" (arena_rooms.rs) | "none"
    width,        \* ArenaGrid::new's width argument / ArenaGrid.width
    height,       \* ArenaGrid::new's height argument / ArenaGrid.height
    seed,         \* the seed of the generator's random source (Perlin::new(rng().random()), rand::rng())
    obstacle_prob,\* the probability handed to rng.random_bool, in percent
    grid,         \* the working grid of ArenaGrid::new, then ArenaGrid.grid
    gen_pc,       \* position inside ArenaGrid::new
    pass,         \* smoothing passes done (the `for _ in 0..SMOOTHING_ITERATIONS` counter)
    probe,        \* last call of a pure function: its arguments and its result
    active,       \* the Update systems the app's plugins added
    phase,        \* "off" | "startup" (OnEnter systems pending) | "idle" | "frame"
    frame,        \* frames begun
    time_delta,   \* Res<Time>: time.delta() of the frame, in clock ticks
    keys,         \* Res<ButtonInput<KeyCode>>: which of up/down/left/right are pressed
    mouse_left,   \* Res<ButtonInput<MouseButton>>: just_pressed(MouseButton::Left)
    cursor,       \* the cursor's world position, or NoCursor
    ran,          \* the systems that have run in this frame
    player,       \* the Player entity: Transform.translation.xy and the heading of its rotation
    enemies,      \* the Enemy entities' Transform.translation.xy
    projectiles,  \* the Projectile entities
    next_entity,  \* the id the next spawned projectile gets
    commands,     \* Commands queued by the frame's systems, not yet applied
    steps         \* what the frame's movement systems did, for the properties

gen_vars == <<strategy, width, height, seed, obstacle_prob, grid, gen_pc, pass>>
input_vars == <<time_delta, keys, mouse_left, cursor>>
world_vars == <<player, enemies, projectiles, next_entity, commands>>
game_vars == <<active, phase, frame, input_vars, ran, world_vars, steps>>
vars == <<gen_vars, probe, game_vars>>

-----------------------------------------------------------------------------
(* Bounds of the model.                                                    *)

\* ArenaGrid::new (cave) is explored for every width and height in 1..MaxCaveDim.
MaxCaveDim == 6
\* A random source's seed has SeedBits bits; see NoiseIsWall and RngNext.
SeedBits == 8
\* ArenaGrid::new (room) is explored for every width and height in 1..MaxRoomDim.
MaxRoomDim == 15

-----------------------------------------------------------------------------
(* Tiles and grids: TileType and Vec<Vec<TileType>>, indexed grid[y][x].    *)

Floor == "Floor"
Wall == "Wall"
TileType == {Floor, Wall}

\* vec![vec![TileType::Floor; width]; height]
FloorGrid(w, h) == [y \in 0..(h - 1) |-> [x \in 0..(w - 1) |-> Floor]]

\* grid[y][x] = t
SetCell(g, x, y, t) == [g EXCEPT ![y] = [@ EXCEPT ![x] = t]]

Min(a, b) == IF a < b THEN a ELSE b
Max(a, b) == IF a > b THEN a ELSE b
Abs(a) == IF a < 0 THEN -a ELSE a

-----------------------------------------------------------------------------
(* U: usize.  A value is <<k, r>> = k * 2^63 + r with r small (|r| far      *)
(* below 2^31): k = 0 and r >= 0 is an ordinary small number, k = 2 and     *)
(* r < 0 is 2^64 + r (a small number wrapped below zero), k = 1 is a value  *)
(* next to 2^63 (half of a wrapped one).  Every usize the generators        *)
(* compute from widths and heights of the model has this shape.             *)

U(n) == <<0, n>>

\* Reduce k * 2^63 + r modulo 2^64 to the canonical pair.
UNorm(k, r) ==
    LET k2 == k % 2
    IN  IF k2 = 0 /\ r < 0 THEN <<2, r>> ELSE <<k2, r>>

\* a + b and a - b, wrapping (release build)
UAdd(a, b) == UNorm(a[1] + b[1], a[2] + b[2])
USub(a, b) == UNorm(a[1] - b[1] + 2, a[2] - b[2])

\* a < b on canonical pairs
ULt(a, b) == a[1] < b[1] \/ (a[1] = b[1] /\ a[2] < b[2])
UGt(a, b) == ULt(b, a)
UGe(a, b) == ~ULt(a, b)

\* a - b overflows (debug build: "attempt to subtract with overflow")
USubOverflows(a, b) == ULt(a, b)

\* usize::max
UMax(a, b) == IF ULt(a, b) THEN b ELSE a

\* a / 2.  Halving a value next to 2^63 does not occur.
UDiv2(a) == IF a[1] = 2 THEN <<1, a[2] \div 2>> ELSE <<a[1], a[2] \div 2>>

\* `a as i32`: the low 32 bits, signed.  2^63 and 2^64 are 0 modulo 2^32.
AsI32(a) == a[2]

\* `i as usize` of an i32: sign extension.
AsUsize(i) == UNorm(0, i)

\* a indexes a Vec of length len without "index out of bounds"
ValidIndex(a, len) == a[1] = 0 /\ a[2] < len


-----------------------------------------------------------------------------
(* arena.rs: the cave generator.                                           *)

SMOOTHING_ITERATIONS == 3
WALL_CONVERSION_THRESHOLD == 5
FLOOR_CONVERSION_THRESHOLD == 4

\* Bit i of n.
Bit(n, i) == (n \div (2 ^ i)) % 2

\* perlin.get([x * NOISE_SCALE, y * NOISE_SCALE]) > NOISE_THRESHOLD, for the
\* Perlin field of a seed.  The noise crate is outside the repository: a seed
\* is read as SeedBits classifications that repeat along the row-major order
\* of the cells, so that on a grid of at most SeedBits cells the seeds give
\* every classification there is.
NoiseIsWall(s, x, y, w) == Bit(s, (y * w + x) % SeedBits) = 1

\* arena.rs 44-54: classify every cell from the noise.
NoiseGrid(s, w, h) ==
    [y \in 0..(h - 1) |->
        [x \in 0..(w - 1) |-> IF NoiseIsWall(s, x, y, w) THEN Wall ELSE Floor]]

\* The (i, j) of count_wall_neighbors' two loops, in the order it visits them.
NeighborOffsets ==
    << <<-1, -1>>, <<-1, 0>>, <<-1, 1>>, <<0, -1>>, <<0, 0>>, <<0, 1>>,
       <<1, -1>>, <<1, 0>>, <<1, 1>> >>

RECURSIVE CountFrom(_, _, _, _, _, _)
\* The loop body of count_wall_neighbors from the n-th offset on.
CountFrom(g, x, y, w, h, n) ==
    IF n > Len(NeighborOffsets) THEN 0
    ELSE LET i == NeighborOffsets[n][1]
             j == NeighborOffsets[n][2]
             check_x == x + i
             check_y == y + j
             rest == CountFrom(g, x, y, w, h, n + 1)
         IN  IF i = 0 /\ j = 0 THEN rest
             ELSE IF check_x >= 0 /\ check_x < w /\ check_y >= 0 /\ check_y < h
                  THEN (IF g[check_y][check_x] = Wall THEN 1 ELSE 0) + rest
                  ELSE 1 + rest

\* A count that leaves the positions outside the grid out.
CountInGridOnly(g, x, y, w, h) ==
    Cardinality({ c \in ((x - 1)..(x + 1)) \X ((y - 1)..(y + 1)) :
                    /\ c # <<x, y>>
                    /\ c[1] >= 0 /\ c[1] < w /\ c[2] >= 0 /\ c[2] < h
                    /\ g[c[2]][c[1]] = Wall })

\* count_wall_neighbors(grid, x, y, width, height)
count_wall_neighbors(g, x, y, w, h) == CountFrom(g, x, y, w, h, 1)

RECURSIVE SmoothCellsInPlace(_, _, _, _)
\* The cells from the n-th of the row-major order on, each rewritten in the
\* grid the counts are taken on.
SmoothCellsInPlace(g, w, h, n) ==
    IF n >= w * h THEN g
    ELSE LET x == n % w
             y == n \div w
             wall_neighbors == count_wall_neighbors(g, x, y, w, h)
             tile == IF g[y][x] = Wall
                     THEN (IF wall_neighbors < FLOOR_CONVERSION_THRESHOLD
                           THEN Floor ELSE Wall)
                     ELSE (IF wall_neighbors >= WALL_CONVERSION_THRESHOLD
                           THEN Wall ELSE Floor)
         IN  IF y >= 1 /\ y < h - 1 /\ x >= 1 /\ x < w - 1
             THEN SmoothCellsInPlace([g EXCEPT ![y][x] = tile], w, h, n + 1)
             ELSE SmoothCellsInPlace(g, w, h, n + 1)

\* A smoothing pass that rewrites the grid it reads.
SmoothInPlace(g, w, h) == SmoothCellsInPlace(g, w, h, 0)

\* arena.rs 57-73: one smoothing pass.  next_grid starts as a clone of grid and
\* only the cells of 1..height-1 x 1..width-1 (exclusive) are rewritten, each
\* from counts taken on grid.
SmoothPass(g, w, h) ==
    [y \in 0..(h - 1) |->
        [x \in 0..(w - 1) |->
            IF y >= 1 /\ y < h - 1 /\ x >= 1 /\ x < w - 1
            THEN LET wall_neighbors == count_wall_neighbors(g, x, y, w, h)
                 IN  IF g[y][x] = Wall
                     THEN (IF wall_neighbors < FLOOR_CONVERSION_THRESHOLD
                           THEN Floor ELSE g[y][x])
                     ELSE (IF wall_neighbors >= WALL_CONVERSION_THRESHOLD
                           THEN Wall ELSE g[y][x])
            ELSE g[y][x]]]

\* arena.rs 76-83: force the border ring to Wall.
SealBorder(g, w, h) ==
    [y \in 0..(h - 1) |->
        [x \in 0..(w - 1) |->
            IF y = 0 \/ y = h - 1 \/ x = 0 \/ x = w - 1 THEN Wall ELSE g[y][x]]]

\* A spawn-clearing guard that only keeps the write inside the grid.
CaveClearInGrid(clear_x, clear_y, w, h) ==
    ULt(clear_x, U(w)) /\ ULt(clear_y, U(h))

\* arena.rs 92: the guard of the spawn clearing, on the usize clear_x, clear_y.
CaveClearGuard(clear_x, clear_y, w, h) ==
    /\ UGt(clear_x, U(0))
    /\ ULt(clear_x, U(w - 1))
    /\ UGt(clear_y, U(0))
    /\ ULt(clear_y, U(h - 1))

\* arena.rs 85-97: the cells the spawn clearing sets to Floor.
CaveClearCells(w, h) ==
    LET center_x == w \div 2
        center_y == h \div 2
    IN  { c \in (0..(w - 1)) \X (0..(h - 1)) :
            \E c_offset \in -1..1, r_offset \in -1..1 :
                LET clear_x == AsUsize(center_x + c_offset)
                    clear_y == AsUsize(center_y + r_offset)
                IN  /\ CaveClearGuard(clear_x, clear_y, w, h)
                    /\ clear_x = U(c[1])
                    /\ clear_y = U(c[2]) }

\* A generator that returns without clearing the spawn area.
SpawnNotCleared(g, w, h) == g

ClearSpawn(g, w, h) ==
    LET cells == CaveClearCells(w, h)
    IN  [y \in 0..(h - 1) |->
            [x \in 0..(w - 1) |-> IF <<x, y>> \in cells THEN Floor ELSE g[y][x]]]

RECURSIVE SmoothTimes(_, _, _, _)
SmoothTimes(g, w, h, n) ==
    IF n = 0 THEN g ELSE SmoothTimes(SmoothPass(g, w, h), w, h, n - 1)

\* ArenaGrid::new(width, height) of arena.rs as a whole, for a seed.
CaveGenerate(s, w, h) ==
    ClearSpawn(SealBorder(SmoothTimes(NoiseGrid(s, w, h), w, h,
                                      SMOOTHING_ITERATIONS), w, h), w, h)

-----------------------------------------------------------------------------
(* arena_rooms.rs: the room generator.                                     *)

ROOM_PADDING_TILES == 3
MIN_ROOM_SIZE_TILES == 8
OBSTACLE_SPAWN_PROBABILITY == 15
MIN_OBSTACLE_SIZE == 1
MAX_OBSTACLE_SIZE == 3

\* arena_rooms.rs 44-53: the room rectangle, in wrapping usize arithmetic;
\* `overflow` says that one of the subtractions overflowed, which a debug
\* build answers with a panic.
RoomGeom(w, h) ==
    LET pad2 == U(2 * ROOM_PADDING_TILES)
        max_room_width == USub(U(w), pad2)
        max_room_height == USub(U(h), pad2)
        room_width == UMax(max_room_width, U(MIN_ROOM_SIZE_TILES))
        room_height == UMax(max_room_height, U(MIN_ROOM_SIZE_TILES))
        room_start_x == UDiv2(USub(U(w), room_width))
        room_start_y == UDiv2(USub(U(h), room_height))
    IN  [ overflow |-> \/ USubOverflows(U(w), pad2)
                       \/ USubOverflows(U(h), pad2)
                       \/ USubOverflows(U(w), room_width)
                       \/ USubOverflows(U(h), room_height),
          room_width |-> room_width,
          room_height |-> room_height,
          room_start_x |-> room_start_x,
          room_start_y |-> room_start_y,
          room_end_x |-> UAdd(room_start_x, room_width),
          room_end_y |-> UAdd(room_start_y, room_height) ]

\* arena_rooms.rs 57: the columns (rows) of the room rectangle.
RoomColumns(r, w) ==
    { x \in 0..(w - 1) : UGe(U(x), r.room_start_x) /\ ULt(U(x), r.room_end_x) }
RoomRows(r, h) ==
    { y \in 0..(h - 1) : UGe(U(y), r.room_start_y) /\ ULt(U(y), r.room_end_y) }

\* arena_rooms.rs 58-61: the columns (rows) of the room's own ring.
RingColumns(r, w) ==
    { x \in 0..(w - 1) : U(x) = r.room_start_x \/ U(x) = USub(r.room_end_x, U(1)) }
RingRows(r, h) ==
    { y \in 0..(h - 1) : U(y) = r.room_start_y \/ U(y) = USub(r.room_end_y, U(1)) }

\* A template with the room rectangle left open: no ring of its own.
TemplateWithoutRing(w, h) ==
    LET r == RoomGeom(w, h)
        cols == RoomColumns(r, w)
        rows == RoomRows(r, h)
    IN  [y \in 0..(h - 1) |->
            [x \in 0..(w - 1) |-> IF x \in cols /\ y \in rows THEN Floor ELSE Wall]]

\* arena_rooms.rs 55-71: the template.  A cell of the room rectangle is Wall
\* on the room's ring and Floor inside it; every cell outside it is Wall.
TemplateGrid(w, h) ==
    LET r == RoomGeom(w, h)
        cols == RoomColumns(r, w)
        rows == RoomRows(r, h)
        ring_cols == RingColumns(r, w)
        ring_rows == RingRows(r, h)
    IN  [y \in 0..(h - 1) |->
            [x \in 0..(w - 1) |->
                IF x \in cols /\ y \in rows
                THEN (IF x \in ring_cols \/ y \in ring_rows THEN Wall ELSE Floor)
                ELSE Wall]]

\* arena_rooms.rs 73-74: the bounds of the obstacle scan's two ranges.
ScanLoX(r) == UAdd(r.room_start_x, U(1))
ScanHiX(r) == USub(r.room_end_x, U(1))
ScanLoY(r) == UAdd(r.room_start_y, U(1))
ScanHiY(r) == USub(r.room_end_y, U(1))

\* Both ranges are non-empty, so the scan reads grid[y][x] for its first cell.
ScanRuns(r) == ULt(ScanLoY(r), ScanHiY(r)) /\ ULt(ScanLoX(r), ScanHiX(r))

\* arena_rooms.rs 75: the scan reads grid[y][x] for every y and x of its
\* ranges, the first of them before anything else; one of them is out of
\* bounds.
ScanPanics(r, w, h) ==
    /\ ScanRuns(r)
    /\ ~(/\ ValidIndex(ScanLoY(r), h)
         /\ ValidIndex(USub(ScanHiY(r), U(1)), h)
         /\ ValidIndex(ScanLoX(r), w)
         /\ ValidIndex(USub(ScanHiX(r), U(1)), w))

\* The random source rand::rng() as a stream: RngNext steps it, RngBool and
\* RngRange read rng.random_bool(p) (p in percent) and
\* rng.random_range(lo..=hi) off its state.  The rand crate is outside the
\* repository: the stream is a full-period congruential sequence modulo
\* 2^SeedBits, so the seeds start it at every point of the cycle.
RngNext(s) == (5 * s + 3) % (2 ^ SeedBits)
RngBool(s, p) == (s * 100) \div (2 ^ SeedBits) < p
RngRange(s, lo, hi) == lo + ((s \div 4) % (hi - lo + 1))

\* arena_rooms.rs 79-88: the footprint of an obstacle of obs_width x obs_height
\* placed at (x, y), clamped to the room's interior: xhi and yhi are
\* room_end_x - 1 and room_end_y - 1.
ObstacleCells(xhi, yhi, x, y, obs_width, obs_height) ==
    { c \in (x..(x + obs_width - 1)) \X (y..(y + obs_height - 1)) :
        c[1] < xhi /\ c[2] < yhi }

RECURSIVE ObstacleScan(_, _, _, _, _, _, _, _, _)
\* arena_rooms.rs 73-90 from cell (x, y) of the scan on, with the random source
\* in state s: the rows up to yhi, and in each the columns xlo..xhi (exclusive
\* of the upper bounds).  g is the grid the scan started on and walls the cells
\* it has set to Wall since.  random_bool is asked only on a cell that is
\* still Floor; when it answers true the two sizes are drawn and the footprint
\* written before the scan moves on.  The result is all the cells written.
ObstacleScan(g, walls, xlo, xhi, yhi, x, y, s, p) ==
    IF y >= yhi THEN walls
    ELSE IF x >= xhi THEN ObstacleScan(g, walls, xlo, xhi, yhi, xlo, y + 1, s, p)
    ELSE IF g[y][x] = Floor /\ <<x, y>> \notin walls
         THEN IF RngBool(s, p)
              THEN LET s1 == RngNext(s)
                       obs_width == RngRange(s1, MIN_OBSTACLE_SIZE, MAX_OBSTACLE_SIZE)
                       s2 == RngNext(s1)
                       obs_height == RngRange(s2, MIN_OBSTACLE_SIZE, MAX_OBSTACLE_SIZE)
                   IN  ObstacleScan(g,
                                    walls \cup ObstacleCells(xhi, yhi, x, y,
                                                             obs_width, obs_height),
                                    xlo, xhi, yhi, x + 1, y, RngNext(s2), p)
              ELSE ObstacleScan(g, walls, xlo, xhi, yhi, x + 1, y, RngNext(s), p)
         ELSE ObstacleScan(g, walls, xlo, xhi, yhi, x + 1, y, s, p)

\* arena_rooms.rs 73-90: the grid after the obstacle scan (when it does not
\* panic: its ranges are then ranges of small numbers).  A scan with an empty
\* range writes nothing.
ScatterObstacles(g, r, w, h, s, p) ==
    IF ScanRuns(r)
    THEN LET walls == ObstacleScan(g, {}, ScanLoX(r)[2], ScanHiX(r)[2], ScanHiY(r)[2],
                                   ScanLoX(r)[2], ScanLoY(r)[2], s, p)
         IN  [y \in 0..(h - 1) |->
                [x \in 0..(w - 1) |-> IF <<x, y>> \in walls THEN Wall ELSE g[y][x]]]
    ELSE g

\* arena_rooms.rs 92-93: the room's centre.
RoomCenterX(r) == UAdd(r.room_start_x, UDiv2(r.room_width))
RoomCenterY(r) == UAdd(r.room_start_y, UDiv2(r.room_height))

\* arena_rooms.rs 95-107: the (clear_x, clear_y), as i32, that pass the guard
\* of the 3x3 clearing.
RoomClearTargets(r) ==
    { c \in ((AsI32(RoomCenterX(r)) - 1)..(AsI32(RoomCenterX(r)) + 1))
            \X ((AsI32(RoomCenterY(r)) - 1)..(AsI32(RoomCenterY(r)) + 1)) :
        /\ c[2] > AsI32(r.room_start_y)
        /\ c[2] < AsI32(USub(r.room_end_y, U(1)))
        /\ c[1] > AsI32(r.room_start_x)
        /\ c[1] < AsI32(USub(r.room_end_x, U(1))) }

\* arena_rooms.rs 108-112: the guard of the last clearing of the centre cell.
RoomCenterGuard(r) ==
    /\ UGt(RoomCenterX(r), r.room_start_x)
    /\ ULt(RoomCenterX(r), USub(r.room_end_x, U(1)))
    /\ UGt(RoomCenterY(r), r.room_start_y)
    /\ ULt(RoomCenterY(r), USub(r.room_end_y, U(1)))

\* arena_rooms.rs 104, 113: one of the clearing's writes is out of bounds.
RoomClearPanics(r, w, h) ==
    \/ \E c \in RoomClearTargets(r) :
          ~(ValidIndex(AsUsize(c[2]), h) /\ ValidIndex(AsUsize(c[1]), w))
    \/ /\ RoomCenterGuard(r)
       /\ ~(ValidIndex(RoomCenterY(r), h) /\ ValidIndex(RoomCenterX(r), w))

\* arena_rooms.rs 92-115: the spawn clearing (when it does not panic).
RoomClear(g, r, w, h) ==
    LET cells == RoomClearTargets(r) \cup
                 (IF RoomCenterGuard(r)
                  THEN {<<AsI32(RoomCenterX(r)), AsI32(RoomCenterY(r))>>} ELSE {})
    IN  [y \in 0..(h - 1) |->
            [x \in 0..(w - 1) |-> IF <<x, y>> \in cells THEN Floor ELSE g[y][x]]]

-----------------------------------------------------------------------------
(* ArenaGrid::new, step by step.  gen_pc is the position in the function:   *)
(* "start" (the grid is the vec! of Floor), then for the cave "smooth",     *)
(* "clear", and for the room "obstacles", "clear"; "done" when the function *)
(* has returned Self { grid, width, height }, "panicked" when it panicked.  *)

\* No window cursor (Window::cursor_position() is None), no Player entity yet,
\* no movement step recorded.
NoCursor == [none |-> TRUE]
NoPlayer == [none |-> TRUE]
NoStep == [none |-> TRUE]
NoSteps == [player |-> NoStep, enemies |-> <<>>, projectiles |-> {}]

\* The game is not running: the generators and the pure functions are
\* exercised on their own.
GameOff ==
    /\ active = {}
    /\ phase = "off"
    /\ frame = 0
    /\ time_delta = 0
    /\ keys = {}
    /\ mouse_left = FALSE
    /\ cursor = NoCursor
    /\ ran = {}
    /\ player = NoPlayer
    /\ enemies = <<>>
    /\ projectiles = {}
    /\ next_entity = 0
    /\ commands = {}
    /\ steps = NoSteps

NoProbe == [fn |-> "none"]

Seeds == 0..((2 ^ SeedBits) - 1)

\* The room generator draws from its random source only when the obstacle
\* probability is positive and the room rectangle did not wrap (a wrapped
\* scan panics or has an empty range: see WrappedScanDrawsNothing).
InitGen ==
    /\ strategy \in {"cave", "room"}
    /\ \/ /\ strategy = "cave"
          /\ width \in 1..MaxCaveDim
          /\ height \in 1..MaxCaveDim
          /\ seed \in Seeds
          /\ obstacle_prob = 0
       \/ /\ strategy = "room"
          /\ width \in 1..MaxRoomDim
          /\ height \in 1..MaxRoomDim
          /\ obstacle_prob \in {0, OBSTACLE_SPAWN_PROBABILITY}
          /\ seed \in IF obstacle_prob > 0 /\ ~RoomGeom(width, height).overflow
                      THEN Seeds ELSE {0}
    /\ grid = FloorGrid(width, height)
    /\ gen_pc = "start"
    /\ pass = 0
    /\ probe = NoProbe
    /\ GameOff

\* arena.rs 42-54
CaveNoise ==
    /\ strategy = "cave" /\ gen_pc = "start"
    /\ grid' = NoiseGrid(seed, width, height)
    /\ gen_pc' = "smooth"
    /\ UNCHANGED <<strategy, width, height, seed, obstacle_prob, pass, probe, game_vars>>

\* arena.rs 56-74, one iteration
CaveSmooth ==
    /\ strategy = "cave" /\ gen_pc = "smooth"
    /\ pass < SMOOTHING_ITERATIONS
    /\ grid' = SmoothPass(grid, width, height)
    /\ pass' = pass + 1
    /\ UNCHANGED <<strategy, width, height, seed, obstacle_prob, gen_pc, probe, game_vars>>

\* arena.rs 76-83
CaveBorder ==
    /\ strategy = "cave" /\ gen_pc = "smooth"
    /\ pass = SMOOTHING_ITERATIONS
    /\ grid' = SealBorder(grid, width, height)
    /\ gen_pc' = "clear"
    /\ UNCHANGED <<strategy, width, height, seed, obstacle_prob, pass, probe, game_vars>>

\* arena.rs 85-104
CaveClear ==
    /\ strategy = "cave" /\ gen_pc = "clear"
    /\ grid' = ClearSpawn(grid, width, height)
    /\ gen_pc' = "done"
    /\ UNCHANGED <<strategy, width, height, seed, obstacle_prob, pass, probe, game_vars>>

\* arena_rooms.rs 44-51 in a build with overflow checks (debug): a subtraction
\* overflows and the function panics.
RoomOverflowPanic ==
    /\ strategy = "room" /\ gen_pc = "start"
    /\ RoomGeom(width, height).overflow
    /\ gen_pc' = "panicked"
    /\ UNCHANGED <<strategy, width, height, seed, obstacle_prob, grid, pass, probe, game_vars>>

\* arena_rooms.rs 44-71: the rectangle and the template.  Where a subtraction
\* overflows this is the build without overflow checks (release), which wraps.
RoomTemplate ==
    /\ strategy = "room" /\ gen_pc = "start"
    /\ grid' = TemplateGrid(width, height)
    /\ gen_pc' = "obstacles"
    /\ UNCHANGED <<strategy, width, height, seed, obstacle_prob, pass, probe, game_vars>>

\* arena_rooms.rs 73-90: the obstacle scan, which panics on its first read
\* when that is out of bounds.
RoomScan ==
    /\ strategy = "room" /\ gen_pc = "obstacles"
    /\ IF ScanPanics(RoomGeom(width, height), width, height)
       THEN /\ gen_pc' = "panicked"
            /\ UNCHANGED grid
       ELSE /\ grid' = ScatterObstacles(grid, RoomGeom(width, height), width, height,
                                        seed, obstacle_prob)
                    /\ gen_pc' = "clear"
    /\ UNCHANGED <<strategy, width, height, seed, obstacle_prob, pass, probe, game_vars>>

\* arena_rooms.rs 92-121
RoomClearStep ==
    /\ strategy = "room" /\ gen_pc = "clear"
    /\ IF RoomClearPanics(RoomGeom(width, height), width, height)
       THEN /\ gen_pc' = "panicked"
            /\ UNCHANGED grid
       ELSE /\ grid' = RoomClear(grid, RoomGeom(width, height), width, height)
                    /\ gen_pc' = "done"
    /\ UNCHANGED <<strategy, width, height, seed, obstacle_prob, pass, probe, game_vars>>

NextGen ==
    \/ CaveNoise
    \/ CaveSmooth
    \/ CaveBorder
    \/ CaveClear
    \/ RoomOverflowPanic
    \/ RoomTemplate
    \/ RoomScan
    \/ RoomClearStep

SpecGen == InitGen /\ [][NextGen]_vars

\* A room rectangle that wrapped never lets the obstacle scan draw: the scan
\* panics on its first read or one of its ranges is empty.
WrappedScanDrawsNothing ==
    (strategy = "room" /\ RoomGeom(width, height).overflow)
        => \/ ScanPanics(RoomGeom(width, height), width, height)
           \/ ~ScanRuns(RoomGeom(width, height))

-----------------------------------------------------------------------------
(* Properties of the generators, over SpecGen.                              *)

GridCells == (0..(width - 1)) \X (0..(height - 1))

BorderCells ==
    { c \in GridCells :
        c[1] = 0 \/ c[1] = width - 1 \/ c[2] = 0 \/ c[2] = height - 1 }

\* The positions of ArenaGrid::new from which the border has been written:
\* for the cave after the sealing loops, for the room after the template.
SealedStages ==
    IF strategy = "cave" THEN {"clear", "done"} ELSE {"obstacles", "clear", "done"}

\* C1: for both generators and every positive width and height, every cell of
\* row 0, row height-1, column 0 and column width-1 is Wall when generation
\* returns; it is Wall from the moment the border is written, so the spawn
\* clearing that follows turns no border cell back into Floor.
BorderIsWall ==
    (strategy \in {"cave", "room"} /\ gen_pc \in SealedStages)
        => \A c \in BorderCells : grid[c[2]][c[1]] = Wall

\* A cave of width 3 has returned: the clearing's 3x3 block reaches column 0
\* and column 2, and only its centre cell was cleared.
BorderIsWallWitness ==
    /\ strategy = "cave" /\ gen_pc = "done"
    /\ width = 3 /\ height >= 3
    /\ grid[height \div 2][1] = Floor
    /\ grid[height \div 2][0] = Wall

\* The 3x3 block the spawn clearing is aimed at: centred on (width/2,
\* height/2) in the cave, on the centre of the room in the room generator.
RoomWidthOf(w) == Max(w - 2 * ROOM_PADDING_TILES, MIN_ROOM_SIZE_TILES)
SpawnCenterX ==
    IF strategy = "cave" THEN width \div 2
    ELSE (width - RoomWidthOf(width)) \div 2 + RoomWidthOf(width) \div 2
SpawnCenterY ==
    IF strategy = "cave" THEN height \div 2
    ELSE (height - RoomWidthOf(height)) \div 2 + RoomWidthOf(height) \div 2
SpawnRegion ==
    ((SpawnCenterX - 1)..(SpawnCenterX + 1)) \X ((SpawnCenterY - 1)..(SpawnCenterY + 1))
SpawnRegionIsFloor ==
    \A c \in SpawnRegion : c \in GridCells /\ grid[c[2]][c[1]] = Floor

\* C2 as stated: for every width and height, the 3x3 spawn region is entirely
\* Floor when generation returns.
SpawnRegionFloorAnySize ==
    (strategy \in {"cave", "room"} /\ gen_pc = "done") => SpawnRegionIsFloor

\* C2, amended: the 3x3 spawn region is entirely Floor when generation
\* returns, whatever the noise or the obstacles put there, on a cave grid of
\* width and height at least 5 and on a room grid of width and height at
\* least MIN_ROOM_SIZE_TILES.
SpawnRegionFloor ==
    (/\ gen_pc = "done"
     /\ \/ strategy = "cave" /\ width >= 5 /\ height >= 5
        \/ /\ strategy = "room"
           /\ width >= MIN_ROOM_SIZE_TILES /\ height >= MIN_ROOM_SIZE_TILES)
        => SpawnRegionIsFloor

\* A cave whose noise was Wall everywhere has returned with its spawn region
\* cleared.
SpawnRegionFloorWitness ==
    /\ strategy = "cave" /\ gen_pc = "done"
    /\ seed = (2 ^ SeedBits) - 1
    /\ width >= 5 /\ height >= 5
    /\ SpawnRegionIsFloor
    /\ grid[1][1] = Wall

\* Strictly inside the centred room rectangle of a w x h grid, on one axis.
InsideRoom(c, n) ==
    LET start == (n - RoomWidthOf(n)) \div 2
    IN  c > start /\ c < start + RoomWidthOf(n) - 1

\* C8: with obstacle probability 0 the room generator (on a grid that holds
\* the minimum room) returns exactly a hollow room: a cell is Floor iff it is
\* strictly inside the centred room rectangle, every other cell is Wall; on a
\* 10x10 grid the Floor cells are those with 2 <= x <= 7 and 2 <= y <= 7.
HollowRoom ==
    (/\ strategy = "room" /\ gen_pc = "done" /\ obstacle_prob = 0
     /\ width >= MIN_ROOM_SIZE_TILES /\ height >= MIN_ROOM_SIZE_TILES)
        => /\ \A c \in GridCells :
                /\ grid[c[2]][c[1]] \in TileType
                /\ grid[c[2]][c[1]] = Floor
                      <=> (InsideRoom(c[1], width) /\ InsideRoom(c[2], height))
           /\ (width = 10 /\ height = 10)
                => \A c \in GridCells :
                      grid[c[2]][c[1]] = Floor
                          <=> (2 <= c[1] /\ c[1] <= 7 /\ 2 <= c[2] /\ c[2] <= 7)

\* The 10x10 room without obstacles has returned.
HollowRoomWitness ==
    /\ strategy = "room" /\ gen_pc = "done" /\ obstacle_prob = 0
    /\ width = 10 /\ height = 10
    /\ grid[2][2] = Floor /\ grid[7][7] = Floor
    /\ grid[1][1] = Wall /\ grid[8][8] = Wall

-----------------------------------------------------------------------------
(* count_wall_neighbors as a function of its arguments.                     *)

\* count_wall_neighbors is called on every grid of at most MaxCountDim x
\* MaxCountDim cells.
MaxCountDim == 3

InitCount ==
    /\ strategy = "none"
    /\ width \in 1..MaxCountDim
    /\ height \in 1..MaxCountDim
    /\ seed \in Seeds
    /\ obstacle_prob = 0
    /\ grid = NoiseGrid(seed, width, height)
    /\ gen_pc = "done"
    /\ pass = 0
    /\ probe = NoProbe
    /\ GameOff

\* arena.rs 107-133, called on a cell of the grid
CallCountWallNeighbors ==
    /\ strategy = "none"
    /\ \E x \in 0..(width - 1), y \in 0..(height - 1) :
          probe' = [ fn |-> "count_wall_neighbors", x |-> x, y |-> y,
                     result |-> count_wall_neighbors(grid, x, y, width, height) ]
    /\ UNCHANGED <<gen_vars, game_vars>>

SpecCount == InitCount /\ [][CallCountWallNeighbors]_vars

\* The 8 positions around (x, y).
Around(x, y) ==
    { c \in ((x - 1)..(x + 1)) \X ((y - 1)..(y + 1)) : c # <<x, y>> }

\* C7: for every grid and every cell of it, edges and corners included,
\* count_wall_neighbors returns the number of in-grid cells among the 8
\* around it that are Wall plus the number of positions around it that fall
\* outside the grid; the cell itself is not counted.
CountsWallsAndOutside ==
    probe.fn = "count_wall_neighbors"
        => probe.result =
              Cardinality({ c \in Around(probe.x, probe.y) :
                              c \in GridCells /\ grid[c[2]][c[1]] = Wall })
            + Cardinality({ c \in Around(probe.x, probe.y) : c \notin GridCells })

\* The call on a corner cell that is Wall itself, with its three in-grid
\* neighbours Floor: the result is the five positions outside the grid.
CountsWallsAndOutsideWitness ==
    /\ probe.fn = "count_wall_neighbors"
    /\ probe.x = 0 /\ probe.y = 0
    /\ width >= 2 /\ height >= 2
    /\ grid[0][0] = Wall
    /\ grid[0][1] = Floor /\ grid[1][0] = Floor /\ grid[1][1] = Floor
    /\ probe.result = 5

\* ------------------------------------------------------------------------
\* World coordinates (player.rs, enemy.rs).
\*
\* An f32 world coordinate is counted in ticks of f32::EPSILON = 2^-23 world
\* units, the spacing of the f32 values between 1 and 2.  An f32 keeps 24
\* significant bits: below 2 world units every whole number of ticks is a
\* value, from 2^k to 2^(k+1) world units the values are 2^k ticks apart.
\* Every sum and difference is rounded to the nearest value, a tie to the one
\* whose last significant bit is 0, as the f32 operation does.

\* One world unit, in ticks.
UnitTicks == 2 ^ 23

\* f32::EPSILON, in ticks.
EPSILON == 1

\* The spacing of the f32 values at magnitude a (a >= 0, in ticks).
Ulp[a \in Nat] == IF a < 2 * UnitTicks THEN 1 ELSE 2 * Ulp[a \div 2]

\* The f32 nearest to v, ties to even.
RoundF32[v \in Int] ==
    LET a == Abs(v)
        u == Ulp[a]
        q == a \div u
        r == a % u
        up == (2 * r > u) \/ (2 * r = u /\ q % 2 = 1)
        m == (IF up THEN q + 1 ELSE q) * u
    IN  IF v < 0 THEN -m ELSE m

\* f32 + and -.
FAdd(a, b) == RoundF32[a + b]
FSub(a, b) == RoundF32[a - b]

\* Vec2
Vec2(vx, vy) == [x |-> vx, y |-> vy]
Vec2Splat(v) == [x |-> v, y |-> v]
Vec2Zero == [x |-> 0, y |-> 0]

\* The test with closed intervals: boxes that only touch would collide.
AabbClosedIntervals(pos1, size1, pos2, size2) ==
    LET half_size1 == Vec2(size1.x \div 2, size1.y \div 2)
        half_size2 == Vec2(size2.x \div 2, size2.y \div 2)
        min1 == Vec2(FSub(pos1.x, half_size1.x), FSub(pos1.y, half_size1.y))
        max1 == Vec2(FAdd(pos1.x, half_size1.x), FAdd(pos1.y, half_size1.y))
        min2 == Vec2(FSub(pos2.x, half_size2.x), FSub(pos2.y, half_size2.y))
        max2 == Vec2(FAdd(pos2.x, half_size2.x), FAdd(pos2.y, half_size2.y))
    IN  (min1.x <= max2.x /\ max1.x >= min2.x) /\ (min1.y <= max2.y /\ max1.y >= min2.y)

\* player.rs 115-125.  The sizes of the program are even numbers of ticks, so
\* size / 2.0 is exact.
check_aabb_collision(pos1, size1, pos2, size2) ==
    LET half_size1 == Vec2(size1.x \div 2, size1.y \div 2)
        half_size2 == Vec2(size2.x \div 2, size2.y \div 2)
        min1 == Vec2(FSub(pos1.x, half_size1.x), FSub(pos1.y, half_size1.y))
        max1 == Vec2(FAdd(pos1.x, half_size1.x), FAdd(pos1.y, half_size1.y))
        min2 == Vec2(FSub(pos2.x, half_size2.x), FSub(pos2.y, half_size2.y))
        max2 == Vec2(FAdd(pos2.x, half_size2.x), FAdd(pos2.y, half_size2.y))
    IN  (min1.x < max2.x /\ max1.x > min2.x) /\ (min1.y < max2.y /\ max1.y > min2.y)

\* enemy.rs 118-128: the enemy module's own copy of the test.
enemy_check_aabb_collision(pos1, size1, pos2, size2) ==
    LET half_size1 == Vec2(size1.x \div 2, size1.y \div 2)
        half_size2 == Vec2(size2.x \div 2, size2.y \div 2)
        min1 == Vec2(FSub(pos1.x, half_size1.x), FSub(pos1.y, half_size1.y))
        max1 == Vec2(FAdd(pos1.x, half_size1.x), FAdd(pos1.y, half_size1.y))
        min2 == Vec2(FSub(pos2.x, half_size2.x), FSub(pos2.y, half_size2.y))
        max2 == Vec2(FAdd(pos2.x, half_size2.x), FAdd(pos2.y, half_size2.y))
    IN  (min1.x < max2.x /\ max1.x > min2.x) /\ (min1.y < max2.y /\ max1.y > min2.y)

\* ------------------------------------------------------------------------
\* check_aabb_collision on its own.

MaxCoord == 2

\* Centres and sizes of the boxes tried, in ticks.
AabbPoints == { Vec2(px, py) : px \in (-MaxCoord)..MaxCoord, py \in (-MaxCoord)..MaxCoord }
AabbSizes == { Vec2(sx, sy) : sx \in {2, 4}, sy \in {2, 4} }

InitAabb ==
    /\ strategy = "none"
    /\ width = 1
    /\ height = 1
    /\ seed = 0
    /\ obstacle_prob = 0
    /\ grid = FloorGrid(1, 1)
    /\ gen_pc = "done"
    /\ pass = 0
    /\ probe = NoProbe
    /\ GameOff

\* player.rs 115-125 and enemy.rs 118-128, called on two boxes, and on the
\* same two boxes in the other order.
CallCheckAabbCollision ==
    /\ strategy = "none"
    /\ probe = NoProbe
    /\ \E pos1 \in AabbPoints, pos2 \in AabbPoints, size1 \in AabbSizes, size2 \in AabbSizes :
          probe' = [ fn |-> "check_aabb_collision",
                     pos1 |-> pos1, size1 |-> size1, pos2 |-> pos2, size2 |-> size2,
                     result |-> check_aabb_collision(pos1, size1, pos2, size2),
                     swapped |-> check_aabb_collision(pos2, size2, pos1, size1),
                     enemy_result |-> enemy_check_aabb_collision(pos1, size1, pos2, size2) ]
    /\ UNCHANGED <<gen_vars, game_vars>>

SpecAabb == InitAabb /\ [][CallCheckAabbCollision]_vars

\* Twice the length of the interval two centre-anchored extents share on one
\* axis (negative when they are apart, 0 when they touch).
SharedExtent2(c1, s1, c2, s2) ==
    Min(2 * c1 + s1, 2 * c2 + s2) - Max(2 * c1 - s1, 2 * c2 - s2)

HalfWidth == 7
HalfHeight == 6

ARENA_WIDTH_TILES == 2 * HalfWidth
ARENA_HEIGHT_TILES == 2 * HalfHeight + 1
TILE_SIZE == 15 * UnitTicks

PLAYER_DEFAULT_SPEED == 150
PLAYER_SPRITE_SIZE == 10 * UnitTicks
ENEMY_DEFAULT_SPEED == 75
ENEMY_SPRITE_SIZE == 10 * UnitTicks

\* floor and ceil of a / b for b > 0 (\div rounds towards minus infinity).
\* The f32 quotient is rounded before floor() or ceil() is taken; at the
\* magnitudes of an arena of at most 16 tiles a side the rounding never
\* reaches the next whole number, because the dividend, itself an f32, is at
\* least 8 * 2^e ticks away from a multiple of TILE_SIZE in [2^e, 2^(e+1))
\* tiles while half the spacing of the quotients there is worth 7.5 * 2^e.
FloorDiv(a, b) == a \div b
CeilDiv(a, b) == -((-a) \div b)

\* arena_offset_x, arena_offset_y: -total_arena_*_pixels / 2.0
ArenaOffset ==
    Vec2(-(ARENA_WIDTH_TILES * (TILE_SIZE \div 2)), -(ARENA_HEIGHT_TILES * (TILE_SIZE \div 2)))

\* The world position of the centre of tile (gx, gy):
\* gx * TILE_SIZE + arena_offset_x + TILE_SIZE / 2.0 (all exact).
TileCenter(gx, gy) ==
    Vec2(gx * TILE_SIZE + ArenaOffset.x + TILE_SIZE \div 2,
         gy * TILE_SIZE + ArenaOffset.y + TILE_SIZE \div 2)

\* arena_grid.grid[gy_usize][gx_usize]: the tile, or a panic ("index out of
\* bounds") when there is no such cell.
ReadCell(arena_grid, gx, gy) ==
    IF gy \in DOMAIN arena_grid /\ gx \in DOMAIN arena_grid[gy] THEN arena_grid[gy][gx]
    ELSE "panic"

\* The cells a query would visit if its index ranges were not clamped.
CellsUnclamped(object_pos_world, object_size, margin) ==
    LET object_half_size == Vec2(object_size.x \div 2, object_size.y \div 2)
        search_min_world ==
            Vec2(FSub(FSub(object_pos_world.x, object_half_size.x), margin),
                 FSub(FSub(object_pos_world.y, object_half_size.y), margin))
        search_max_world ==
            Vec2(FAdd(FAdd(object_pos_world.x, object_half_size.x), margin),
                 FAdd(FAdd(object_pos_world.y, object_half_size.y), margin))
    IN  (FloorDiv(FSub(search_min_world.x, ArenaOffset.x), TILE_SIZE)
            ..CeilDiv(FSub(search_max_world.x, ArenaOffset.x), TILE_SIZE))
        \X (FloorDiv(FSub(search_min_world.y, ArenaOffset.y), TILE_SIZE)
               ..CeilDiv(FSub(search_max_world.y, ArenaOffset.y), TILE_SIZE))

\* The grid cells the two loops of get_nearby_wall_positions_world visit for an
\* object and a margin around it.
SearchCells(object_pos_world, object_size, margin) ==
    LET object_half_size == Vec2(object_size.x \div 2, object_size.y \div 2)
        search_min_world ==
            Vec2(FSub(FSub(object_pos_world.x, object_half_size.x), margin),
                 FSub(FSub(object_pos_world.y, object_half_size.y), margin))
        search_max_world ==
            Vec2(FAdd(FAdd(object_pos_world.x, object_half_size.x), margin),
                 FAdd(FAdd(object_pos_world.y, object_half_size.y), margin))
        start_x_grid == FloorDiv(FSub(search_min_world.x, ArenaOffset.x), TILE_SIZE)
        end_x_grid == CeilDiv(FSub(search_max_world.x, ArenaOffset.x), TILE_SIZE)
        start_y_grid == FloorDiv(FSub(search_min_world.y, ArenaOffset.y), TILE_SIZE)
        end_y_grid == CeilDiv(FSub(search_max_world.y, ArenaOffset.y), TILE_SIZE)
    IN  (Max(start_x_grid, 0)..Min(end_x_grid, ARENA_WIDTH_TILES - 1))
            \X (Max(start_y_grid, 0)..Min(end_y_grid, ARENA_HEIGHT_TILES - 1))

\* player.rs 206-239: the centres of the Wall tiles within one tile of the
\* object's box.  The Vec is only ever searched for one colliding element,
\* so it is kept as a set.
get_nearby_wall_positions_world(object_pos_world, object_size, arena_grid) ==
    { TileCenter(c[1], c[2]) :
        c \in { d \in SearchCells(object_pos_world, object_size, TILE_SIZE) :
                  ReadCell(arena_grid, d[1], d[2]) = Wall } }

\* A query whose window is a tile smaller than the box on every side.
NearbyInsideTheBox(object_pos_world, object_size, arena_grid) ==
    { TileCenter(c[1], c[2]) :
        c \in { d \in SearchCells(object_pos_world, object_size, -TILE_SIZE) :
                  ReadCell(arena_grid, d[1], d[2]) = Wall } }

\* enemy.rs 130-160: the same with a margin of half a tile.
enemy_get_nearby_wall_positions_world(object_pos_world, object_size, arena_grid) ==
    { TileCenter(c[1], c[2]) :
        c \in { d \in SearchCells(object_pos_world, object_size, TILE_SIZE \div 2) :
                  ReadCell(arena_grid, d[1], d[2]) = Wall } }

\* The `for wall_pos_world in ... { if check_aabb_collision(...) { ...; break } }`
\* loops of player.rs 163-175, 185-197, 312-324 and enemy.rs 184-196, 206-218.
PlayerHitsWall(pos, size, arena_grid) ==
    \E next_pos \in {pos} :
        \E wall_pos_world \in get_nearby_wall_positions_world(next_pos, size, arena_grid) :
            check_aabb_collision(next_pos, size, wall_pos_world, Vec2Splat(TILE_SIZE))

EnemyHitsWall(pos, size, arena_grid) ==
    \E next_pos \in {pos} :
        \E wall_pos_world \in
                enemy_get_nearby_wall_positions_world(next_pos, size, arena_grid) :
            enemy_check_aabb_collision(next_pos, size, wall_pos_world, Vec2Splat(TILE_SIZE))

\* ------------------------------------------------------------------------
\* direction * speed * time.delta_secs()
\*
\* Time is counted in clock ticks of 1 / (75 * 2^23) s: a body of speed 75
\* travels one tick of length per clock tick.  A unit vector has components
\* in 2^-15ths.

\* Time<Virtual> hands a frame at most 250 ms (its default max_delta).
MaxDelta == (75 * UnitTicks) \div 4

\* speed * delta_secs, in ticks of length.
Travel(speed, dt) == speed * (dt \div 75) + (speed * (dt % 75)) \div 75

\* The largest r in lo..hi with r * r <= n, by bisection.
IsqrtBetween[n \in Nat, lo \in Nat, hi \in Nat] ==
    IF lo >= hi THEN lo
    ELSE LET mid == (lo + hi + 1) \div 2
         IN  IF mid * mid <= n THEN IsqrtBetween[n, mid, hi]
             ELSE IsqrtBetween[n, lo, mid - 1]

\* floor(sqrt(n)) for n <= 2^30
Isqrt(n) == IsqrtBetween[n, 0, 2 ^ 15]

UnitQ == 2 ^ 15

\* a * q / 2^15, rounded to the nearest tick (a >= 0, 0 <= q <= 2^15)
ScaleQ(a, q) == (a \div UnitQ) * q + ((a % UnitQ) * q + UnitQ \div 2) \div UnitQ

Sign(v) == IF v > 0 THEN 1 ELSE IF v < 0 THEN -1 ELSE 0

\* Vec2::normalize / normalize_or_zero: the unit vector along v, (0, 0) for
\* v = (0, 0).  The vector is first scaled down to 14 bits.
Normalize(v) ==
    IF v.x = 0 /\ v.y = 0 THEN Vec2Zero
    ELSE LET k == Max(Abs(v.x), Abs(v.y)) \div (2 ^ 14) + 1
             xs == Abs(v.x) \div k
             ys == Abs(v.y) \div k
             len == Isqrt(xs * xs + ys * ys)
         IN  Vec2(Sign(v.x) * ((xs * UnitQ) \div len), Sign(v.y) * ((ys * UnitQ) \div len))

\* direction * speed * delta_secs for a unit vector.
MoveAmount(direction, speed, dt) ==
    Vec2(Sign(direction.x) * ScaleQ(Travel(speed, dt), Abs(direction.x)),
         Sign(direction.y) * ScaleQ(Travel(speed, dt), Abs(direction.y)))


\* ------------------------------------------------------------------------
\* The sweep of player_movement_system and of enemy_movement_system.

\* player.rs 162, 184: `if move_amount.x != 0.0`
PlayerTestsTheAxis(m) == m # 0

\* A sweep that queries the walls for a component whatever its magnitude.
TestsEveryAxis(m) == TRUE

\* enemy.rs 183, 205: `if move_amount_total.x.abs() > f32::EPSILON`
EnemyTestsTheAxis(m) == Abs(m) > EPSILON

\* What one sweep did: where the body was, the displacement asked for, which
\* axes were tested against the walls and with what result, where the body is.
StepRecord(from, move, tested_x, collision_x, tested_y, collision_y, to) ==
    [from |-> from, move |-> move, tested_x |-> tested_x, collision_x |-> collision_x,
     tested_y |-> tested_y, collision_y |-> collision_y, to |-> to]

\* A sweep that gives up the whole displacement when either axis collides.
SweepRejectingBoth(current_pos, move_amount, player_size, arena_grid) ==
    LET next_pos_x == Vec2(FAdd(current_pos.x, move_amount.x), current_pos.y)
        next_pos_y == Vec2(current_pos.x, FAdd(current_pos.y, move_amount.y))
        collision_x == move_amount.x # 0 /\ PlayerHitsWall(next_pos_x, player_size, arena_grid)
        collision_y == move_amount.y # 0 /\ PlayerHitsWall(next_pos_y, player_size, arena_grid)
    IN  StepRecord(current_pos, move_amount, move_amount.x # 0, collision_x,
                   move_amount.y # 0, collision_y,
                   IF collision_x \/ collision_y THEN current_pos
                   ELSE Vec2(next_pos_x.x, next_pos_y.y))

\* player.rs 158-201
PlayerSweep(current_pos, move_amount, player_size, arena_grid) ==
    LET next_pos_x == Vec2(FAdd(current_pos.x, move_amount.x), current_pos.y)
        tested_x == PlayerTestsTheAxis(move_amount.x)
        collision_x == tested_x /\ PlayerHitsWall(next_pos_x, player_size, arena_grid)
        current_pos_after_x_move ==
            IF ~collision_x THEN Vec2(FAdd(current_pos.x, move_amount.x), current_pos.y)
            ELSE current_pos
        next_pos_y ==
            Vec2(current_pos_after_x_move.x, FAdd(current_pos_after_x_move.y, move_amount.y))
        tested_y == PlayerTestsTheAxis(move_amount.y)
        collision_y == tested_y /\ PlayerHitsWall(next_pos_y, player_size, arena_grid)
    IN  StepRecord(current_pos, move_amount, tested_x, collision_x, tested_y, collision_y,
                   IF ~collision_y THEN next_pos_y ELSE current_pos_after_x_move)

\* enemy.rs 177-222
EnemySweep(enemy_current_pos, move_amount_total, enemy_size, arena_grid) ==
    LET next_pos_x ==
            Vec2(FAdd(enemy_current_pos.x, move_amount_total.x), enemy_current_pos.y)
        tested_x == EnemyTestsTheAxis(move_amount_total.x)
        collision_x == tested_x /\ EnemyHitsWall(next_pos_x, enemy_size, arena_grid)
        enemy_current_pos_after_x ==
            IF ~collision_x
            THEN Vec2(FAdd(enemy_current_pos.x, move_amount_total.x), enemy_current_pos.y)
            ELSE enemy_current_pos
        next_pos_y ==
            Vec2(enemy_current_pos_after_x.x,
                 FAdd(enemy_current_pos_after_x.y, move_amount_total.y))
        tested_y == EnemyTestsTheAxis(move_amount_total.y)
        collision_y == tested_y /\ EnemyHitsWall(next_pos_y, enemy_size, arena_grid)
    IN  StepRecord(enemy_current_pos, move_amount_total, tested_x, collision_x,
                   tested_y, collision_y,
                   IF ~collision_y THEN next_pos_y ELSE enemy_current_pos_after_x)

\* A sweep that was not made: the direction was zero.
Rest(pos) == StepRecord(pos, Vec2Zero, FALSE, FALSE, FALSE, FALSE, pos)

\* player.rs 134-147: the direction the pressed keys add up to.  keys holds
\* "up" for KeyW or ArrowUp, "down" for KeyS or ArrowDown, "left" for KeyA or
\* ArrowLeft, "right" for KeyD or ArrowRight.
KeyDirection(pressed) ==
    Vec2((IF "right" \in pressed THEN 1 ELSE 0) - (IF "left" \in pressed THEN 1 ELSE 0),
         (IF "up" \in pressed THEN 1 ELSE 0) - (IF "down" \in pressed THEN 1 ELSE 0))

\* player.rs 150: direction.normalize() of a vector of components -1, 0, 1.
DiagQ == Isqrt((UnitQ * UnitQ) \div 2)
NormalizeKeys(d) ==
    IF d.x # 0 /\ d.y # 0 THEN Vec2(d.x * DiagQ, d.y * DiagQ)
    ELSE Vec2(d.x * UnitQ, d.y * UnitQ)

\* The heading of Quat::from_rotation_z(v.y.atan2(v.x)): rotation * Vec3::X.
\* atan2(0, 0) is 0.
Heading(v) == IF v.x = 0 /\ v.y = 0 THEN Vec2(UnitQ, 0) ELSE Normalize(v)

\* Transform::default(), Transform::from_translation(position)
Body(pos) == [translation |-> pos, heading |-> Vec2(UnitQ, 0)]


\* ------------------------------------------------------------------------
\* OnEnter(GameState::InGame): setup_arena, spawn_player and spawn_enemies.
\* spawn_enemies is ordered after setup_arena, whose Commands are applied in
\* between; the entities the three spawn appear when the schedule ends.

MaxEnemies == 1
MAX_ENEMIES_SPAWN == MaxEnemies

\* The seeds the arena of a session is generated from.
ArenaSeeds == {15}

StartupSystems == {"setup_arena", "spawn_player", "spawn_enemies"}
MovementSystems == {"player_movement_system", "enemy_movement_system"}
ShootingSystems ==
    {"player_aiming_system", "player_shooting_system", "projectile_movement_system",
     "projectile_lifetime_system"}

\* arena.rs 143-187
setup_arena ==
    /\ phase = "startup"
    /\ "setup_arena" \in active \ ran
    /\ \E s \in ArenaSeeds :
          /\ seed' = s
          /\ grid' = CaveGenerate(s, ARENA_WIDTH_TILES, ARENA_HEIGHT_TILES)
    /\ strategy' = "cave"
    /\ width' = ARENA_WIDTH_TILES
    /\ height' = ARENA_HEIGHT_TILES
    /\ gen_pc' = "done"
    /\ pass' = SMOOTHING_ITERATIONS
    /\ ran' = ran \cup {"setup_arena"}
    /\ UNCHANGED <<obstacle_prob, probe, active, phase, frame, input_vars, world_vars, steps>>

\* player.rs 111-113
spawn_player ==
    /\ phase = "startup"
    /\ "spawn_player" \in active \ ran
    /\ commands' = commands \cup {[op |-> "spawn_player", body |-> Body(Vec2Zero)]}
    /\ ran' = ran \cup {"spawn_player"}
    /\ UNCHANGED <<gen_vars, probe, active, phase, frame, input_vars, player, enemies,
                   projectiles, next_entity, steps>>

\* enemy.rs 69-88: the floor tiles an enemy may be put on, in scan order.
FloorTiles(arena_grid, w, h) ==
    { t \in (0..(w - 1)) \X (0..(h - 1)) :
        /\ arena_grid[t[2]][t[1]] = Floor
        /\ t[1] > 1 /\ t[1] < w - 2
        /\ t[2] > 1 /\ t[2] < h - 2
        /\ (t[1] - w \div 2) * (t[1] - w \div 2) + (t[2] - h \div 2) * (t[2] - h \div 2) > 25 }

\* enemy.rs 65-116
spawn_enemies ==
    /\ phase = "startup"
    /\ "spawn_enemies" \in active \ ran
    /\ "setup_arena" \in ran
    /\ LET floor_tiles == FloorTiles(grid, width, height)
       IN  IF floor_tiles = {}
           THEN commands' = commands
           ELSE \E picks \in [1..MAX_ENEMIES_SPAWN -> floor_tiles] :
                   commands' = commands \cup
                       {[op |-> "spawn_enemies",
                         bodies |-> [i \in 1..MAX_ENEMIES_SPAWN |->
                                        Body(TileCenter(picks[i][1], picks[i][2]))]]}
    /\ ran' = ran \cup {"spawn_enemies"}
    /\ UNCHANGED <<gen_vars, probe, active, phase, frame, input_vars, player, enemies,
                   projectiles, next_entity, steps>>

\* The end of the OnEnter schedule: the queued spawns are applied.
EnterInGame ==
    /\ phase = "startup"
    /\ ran = active \cap StartupSystems
    /\ player' = IF \E c \in commands : c.op = "spawn_player"
                 THEN (CHOOSE c \in commands : c.op = "spawn_player").body
                 ELSE player
    /\ enemies' = IF \E c \in commands : c.op = "spawn_enemies"
                  THEN (CHOOSE c \in commands : c.op = "spawn_enemies").bodies
                  ELSE enemies
    /\ commands' = {}
    /\ ran' = {}
    /\ phase' = "idle"
    /\ UNCHANGED <<gen_vars, probe, active, frame, input_vars, projectiles, next_entity, steps>>

\* ------------------------------------------------------------------------
\* One pass of the Update schedule.  The systems of a tuple are not ordered
\* among themselves; each runs once, and the Commands they queue are applied
\* when the pass ends.

\* A frame begins: the clock has advanced by dt, the keys in pressed are held
\* down, the left button went down since the last frame if click, the cursor
\* is over the window at viewport position at (or outside it: NoCursor).
BeginFrame(dt, pressed, click, at) ==
    /\ phase = "idle"
    /\ frame' = frame + 1
    /\ time_delta' = dt
    /\ keys' = pressed
    /\ mouse_left' = click
    /\ cursor' = at
    /\ ran' = {}
    /\ steps' = NoSteps
    /\ phase' = "frame"
    /\ UNCHANGED <<gen_vars, probe, active, world_vars>>

\* player.rs 134-202
PlayerStep(body, pressed, dt, arena_grid) ==
    LET direction == KeyDirection(pressed)
        move_amount == MoveAmount(NormalizeKeys(direction), PLAYER_DEFAULT_SPEED, dt)
    IN  IF direction = Vec2Zero THEN Rest(body.translation)
        ELSE PlayerSweep(body.translation, move_amount, Vec2Splat(PLAYER_SPRITE_SIZE),
                         arena_grid)

\* player.rs 127-204
player_movement_system ==
    /\ phase = "frame"
    /\ "player_movement_system" \in active \ ran
    /\ ran' = ran \cup {"player_movement_system"}
    /\ IF player = NoPlayer
       THEN UNCHANGED <<player, steps>>
       ELSE \E step \in {PlayerStep(player, keys, time_delta, grid)} :
                /\ player' = [player EXCEPT !.translation = step.to]
                /\ steps' = [steps EXCEPT !.player = step]
    /\ UNCHANGED <<gen_vars, probe, active, phase, frame, input_vars, enemies, projectiles,
                   next_entity, commands>>

\* enemy.rs 173, 225: (player_pos - enemy_pos).normalize_or_zero()
DirectionTo(player_pos, enemy_pos) ==
    Normalize(Vec2(FSub(player_pos.x, enemy_pos.x), FSub(player_pos.y, enemy_pos.y)))

\* enemy.rs 171-222, for one enemy
EnemyStep(enemy, player_pos, dt, arena_grid) ==
    LET enemy_current_pos == enemy.translation
        direction_to_player == DirectionTo(player_pos, enemy_current_pos)
    IN  IF direction_to_player = Vec2Zero THEN Rest(enemy_current_pos)
        ELSE EnemySweep(enemy_current_pos,
                        MoveAmount(direction_to_player, ENEMY_DEFAULT_SPEED, dt),
                        Vec2Splat(ENEMY_SPRITE_SIZE), arena_grid)

\* enemy.rs 224-231: the enemy turns to the player once it has swept
EnemyAfter(enemy, step, player_pos) ==
    LET final_direction_to_player == DirectionTo(player_pos, step.to)
    IN  IF DirectionTo(player_pos, enemy.translation) = Vec2Zero THEN enemy
        ELSE [translation |-> step.to,
              heading |-> IF final_direction_to_player # Vec2Zero
                          THEN final_direction_to_player ELSE enemy.heading]

\* enemy.rs 162-235
enemy_movement_system ==
    /\ phase = "frame"
    /\ "enemy_movement_system" \in active \ ran
    /\ ran' = ran \cup {"enemy_movement_system"}
    /\ IF player = NoPlayer
       THEN UNCHANGED <<enemies, steps>>
       ELSE \E done \in {[i \in DOMAIN enemies |->
                               EnemyStep(enemies[i], player.translation, time_delta, grid)]} :
                /\ enemies' = [i \in DOMAIN enemies |->
                                  EnemyAfter(enemies[i], done[i], player.translation)]
                /\ steps' = [steps EXCEPT !.enemies = done]
    /\ UNCHANGED <<gen_vars, probe, active, phase, frame, input_vars, player, projectiles,
                   next_entity, commands>>


\* ------------------------------------------------------------------------
\* Aiming, shooting and the projectiles (player.rs 241-345).

WEAPON_DEFAULT_PROJECTILE_SPEED == 400
PROJECTILE_SPRITE_WIDTH == 10 * UnitTicks
PROJECTILE_SPRITE_HEIGHT == 4 * UnitTicks
PROJECTILE_LIFETIME_SECONDS == 2 * 75 * UnitTicks
PROJECTILE_SPAWN_OFFSET == 5 * UnitTicks

\* main.rs 21: the window, in pixels
WINDOW_WIDTH == 1280
WINDOW_HEIGHT == 720

\* Camera::viewport_to_world_2d for the Camera2d of main.rs 36-38, which sits
\* at the origin and shows one world unit per pixel: the viewport's origin is
\* the window's top left corner and its y axis points down.
ViewportToWorld2d(cursor_position) ==
    Vec2((cursor_position.x - WINDOW_WIDTH \div 2) * UnitTicks,
         (WINDOW_HEIGHT \div 2 - cursor_position.y) * UnitTicks)

\* player.rs 241-262
player_aiming_system ==
    /\ phase = "frame"
    /\ "player_aiming_system" \in active \ ran
    /\ ran' = ran \cup {"player_aiming_system"}
    /\ IF player = NoPlayer \/ cursor = NoCursor
       THEN player' = player
       ELSE LET world_position == ViewportToWorld2d(cursor)
                direction_to_cursor ==
                    Vec2(FSub(world_position.x, player.translation.x),
                         FSub(world_position.y, player.translation.y))
            IN  player' = [player EXCEPT !.heading = Heading(direction_to_cursor)]
    /\ UNCHANGED <<gen_vars, probe, active, phase, frame, input_vars, enemies, projectiles,
                   next_entity, commands, steps>>

\* direction * length for a unit vector, to the nearest tick
Along(direction, length) ==
    Vec2(Sign(direction.x) * ScaleQ(length, Abs(direction.x)),
         Sign(direction.y) * ScaleQ(length, Abs(direction.y)))

\* player.rs 264-295
player_shooting_system ==
    /\ phase = "frame"
    /\ "player_shooting_system" \in active \ ran
    /\ ran' = ran \cup {"player_shooting_system"}
    /\ IF player # NoPlayer /\ mouse_left
       THEN LET projectile_direction_3d == player.heading
                offset == Along(projectile_direction_3d, PROJECTILE_SPAWN_OFFSET)
            IN  /\ commands' = commands \cup
                       {[op |-> "spawn_projectile",
                         projectile |->
                             [entity |-> next_entity,
                              translation |-> Vec2(FAdd(player.translation.x, offset.x),
                                                   FAdd(player.translation.y, offset.y)),
                              direction |-> projectile_direction_3d,
                              elapsed |-> 0,
                              moved |-> 0]]}
                /\ next_entity' = next_entity + 1
       ELSE UNCHANGED <<commands, next_entity>>
    /\ UNCHANGED <<gen_vars, probe, active, phase, frame, input_vars, player, enemies,
                   projectiles, steps>>

\* Past the arena, whose walls end at half its width and height, and past the
\* reach of a query there is nothing a projectile can meet, and flying on a
\* straight line it does not come back: the model keeps its coordinates
\* within WorldLimit.
WorldLimit == Max(ARENA_WIDTH_TILES, ARENA_HEIGHT_TILES) * (TILE_SIZE \div 2) + 20 * UnitTicks
Clip(v) == Max(-WorldLimit, Min(WorldLimit, v))

\* What one step of a projectile did.
ProjectileRecord(p, next_pos_2d, collision_detected, to) ==
    [entity |-> p.entity, from |-> p.translation, next_pos_2d |-> next_pos_2d,
     collision_detected |-> collision_detected, first |-> p.moved = 0, to |-> to]

\* A step that advances the projectile whether or not it meets a wall.
ProjectileStepThroughWalls(p, dt, arena_grid) ==
    LET movement_vector == MoveAmount(p.direction, WEAPON_DEFAULT_PROJECTILE_SPEED, dt)
        next_pos_2d == Vec2(Clip(FAdd(p.translation.x, movement_vector.x)),
                            Clip(FAdd(p.translation.y, movement_vector.y)))
        projectile_size == Vec2(PROJECTILE_SPRITE_WIDTH, PROJECTILE_SPRITE_HEIGHT)
    IN  ProjectileRecord(p, next_pos_2d,
                         PlayerHitsWall(next_pos_2d, projectile_size, arena_grid), next_pos_2d)

\* player.rs 304-330, for one projectile
ProjectileStep(p, dt, arena_grid) ==
    LET movement_vector == MoveAmount(p.direction, WEAPON_DEFAULT_PROJECTILE_SPEED, dt)
        next_pos_2d == Vec2(Clip(FAdd(p.translation.x, movement_vector.x)),
                            Clip(FAdd(p.translation.y, movement_vector.y)))
        projectile_size == Vec2(PROJECTILE_SPRITE_WIDTH, PROJECTILE_SPRITE_HEIGHT)
    IN  \* the record is built once the collision is known
        IF PlayerHitsWall(next_pos_2d, projectile_size, arena_grid)
        THEN ProjectileRecord(p, next_pos_2d, TRUE, p.translation)
        ELSE ProjectileRecord(p, next_pos_2d, FALSE, next_pos_2d)

\* player.rs 297-332
projectile_movement_system ==
    /\ phase = "frame"
    /\ "projectile_movement_system" \in active \ ran
    /\ ran' = ran \cup {"projectile_movement_system"}
    /\ \E done \in {{ ProjectileStep(p, time_delta, grid) : p \in projectiles }} :
          /\ projectiles' =
                { [p EXCEPT !.translation = (CHOOSE d \in done : d.entity = p.entity).to,
                            !.moved = 1] : p \in projectiles }
          /\ commands' = commands \cup
                { [op |-> "despawn", entity |-> s.entity] :
                     s \in { d \in done : d.collision_detected } }
          /\ steps' = [steps EXCEPT !.projectiles = done]
    /\ UNCHANGED <<gen_vars, probe, active, phase, frame, input_vars, player, enemies,
                   next_entity>>

\* A timer that does not advance.
TimerStuck(elapsed, dt) == elapsed

\* Timer::tick of a TimerMode::Once timer: the elapsed time stops at the
\* duration.
TimerTick(elapsed, dt) == Min(elapsed + dt, PROJECTILE_LIFETIME_SECONDS)

\* player.rs 334-345
projectile_lifetime_system ==
    /\ phase = "frame"
    /\ "projectile_lifetime_system" \in active \ ran
    /\ ran' = ran \cup {"projectile_lifetime_system"}
    /\ projectiles' =
          { [p EXCEPT !.elapsed = TimerTick(p.elapsed, time_delta)] : p \in projectiles }
    /\ commands' = commands \cup
          { [op |-> "despawn", entity |-> p.entity] :
               p \in { q \in projectiles :
                         TimerTick(q.elapsed, time_delta) >= PROJECTILE_LIFETIME_SECONDS } }
    /\ UNCHANGED <<gen_vars, probe, active, phase, frame, input_vars, player, enemies,
                   next_entity, steps>>

\* The end of the pass: the queued despawns and spawns are applied.
EndFrame ==
    /\ phase = "frame"
    /\ ran = active \ StartupSystems
    /\ projectiles' =
          { p \in projectiles : [op |-> "despawn", entity |-> p.entity] \notin commands }
          \cup { c.projectile : c \in { d \in commands : d.op = "spawn_projectile" } }
    /\ commands' = {}
    /\ phase' = "idle"
    /\ UNCHANGED <<gen_vars, probe, active, frame, input_vars, ran, player, enemies,
                   next_entity, steps>>


\* ------------------------------------------------------------------------
\* A session from the moment GameState::InGame is entered, in an app that has
\* ArenaPlugin, PlayerPlugin and EnemyPlugin, followed for its first frames.

\* The frame lengths (time.delta(), at most MaxDelta) and the keys held down in
\* each of the session's frames.  The first frame of an app may have a zero
\* delta.  The lengths are such that an enemy spawned on tile (2, 7) of the
\* arena of seed 15 comes down along the wall on its right and stops two
\* ticks under y = -2.5, where the tile edge at y = -7.5 is half a body away.
SessionInputs ==
    << {[dt |-> 0, keys |-> {}], [dt |-> 117440512, keys |-> {"down"}]},
       {[dt |-> 155789118, keys |-> {"down"}], [dt |-> 2, keys |-> {"left", "right"}]},
       {[dt |-> 2, keys |-> {}], [dt |-> 52515923, keys |-> {}]},
       {[dt |-> 96468992, keys |-> {"up"}]},
       {[dt |-> 20, keys |-> {}]} >>

InitMove ==
    /\ strategy = "none"
    /\ width = 1 /\ height = 1
    /\ seed = 0
    /\ obstacle_prob = 0
    /\ grid = FloorGrid(1, 1)
    /\ gen_pc = "done"
    /\ pass = 0
    /\ probe = NoProbe
    /\ active = StartupSystems \cup MovementSystems
    /\ phase = "startup"
    /\ frame = 0
    /\ time_delta = 0
    /\ keys = {}
    /\ mouse_left = FALSE
    /\ cursor = NoCursor
    /\ ran = {}
    /\ player = NoPlayer
    /\ enemies = <<>>
    /\ projectiles = {}
    /\ next_entity = 0
    /\ commands = {}
    /\ steps = NoSteps

BeginSessionFrame ==
    /\ frame < Len(SessionInputs)
    /\ \E i \in SessionInputs[frame + 1] : BeginFrame(i.dt, i.keys, FALSE, NoCursor)

NextMove ==
    \/ setup_arena
    \/ spawn_player
    \/ spawn_enemies
    \/ EnterInGame
    \/ BeginSessionFrame
    \/ player_movement_system
    \/ enemy_movement_system
    \/ EndFrame

SpecMove == InitMove /\ [][NextMove]_vars

\* Whether a box overlaps the box of a Wall tile anywhere in an arena.
OverlapsWallOf(arena_grid, w, h, pos, size) ==
    \E at \in {pos} :
        \E t \in (0..(w - 1)) \X (0..(h - 1)) :
            /\ arena_grid[t[2]][t[1]] = Wall
            /\ check_aabb_collision(at, size, TileCenter(t[1], t[2]), Vec2Splat(TILE_SIZE))

OverlapsWall(pos, size) == OverlapsWallOf(grid, width, height, pos, size)

\* The sweeps of the frame so far, each with the size of its body.
Sweeps ==
    (IF steps.player = NoStep THEN {}
     ELSE {[step |-> steps.player, size |-> Vec2Splat(PLAYER_SPRITE_SIZE)]})
    \cup { [step |-> steps.enemies[i], size |-> Vec2Splat(ENEMY_SPRITE_SIZE)] :
             i \in DOMAIN steps.enemies }

\* The position with only the X component, only the Y component applied.
CandidateX(s) == Vec2(FAdd(s.from.x, s.move.x), s.from.y)
CandidateY(s) == Vec2(s.from.x, FAdd(s.from.y, s.move.y))

\* On each axis the body is where it was or where the requested component
\* takes it.
AppliedOrNot(s) ==
    /\ s.to.x \in {s.from.x, FAdd(s.from.x, s.move.x)}
    /\ s.to.y \in {s.from.y, FAdd(s.from.y, s.move.y)}

PlayerStarts ==
    { Vec2(c[1] * UnitTicks, c[2] * UnitTicks) :
        c \in {<<0, 0>>, <<-10, 0>>, <<25, 15>>, <<-60, 15>>} }

\* Frame lengths: none, two ticks, 0.1 s and the longest.
SweepDeltas == {0, 2, (15 * UnitTicks) \div 2, MaxDelta}

SweepKeys ==
    {{}, {"left", "right"}, {"left"}, {"left", "up"}, {"right", "up"}}

MaxSweepFrames == 2

InitSweep ==
    /\ strategy = "cave"
    /\ width = ARENA_WIDTH_TILES
    /\ height = ARENA_HEIGHT_TILES
    /\ seed \in ArenaSeeds
    /\ obstacle_prob = 0
    /\ grid = CaveGenerate(seed, width, height)
    /\ gen_pc = "done"
    /\ pass = SMOOTHING_ITERATIONS
    /\ probe = NoProbe
    /\ active = StartupSystems \cup MovementSystems
    /\ phase = "idle"
    /\ frame = 0
    /\ time_delta = 0
    /\ keys = {}
    /\ mouse_left = FALSE
    /\ cursor = NoCursor
    /\ ran = {}
    /\ player \in { Body(at) :
                      at \in { c \in PlayerStarts :
                                 ~OverlapsWallOf(grid, width, height, c,
                                                 Vec2Splat(PLAYER_SPRITE_SIZE)) } }
    /\ enemies \in { <<Body(TileCenter(t[1], t[2]))>> : t \in FloorTiles(grid, width, height) }
    /\ projectiles = {}
    /\ next_entity = 0
    /\ commands = {}
    /\ steps = NoSteps

BeginSweepFrame ==
    /\ frame < MaxSweepFrames
    /\ \E dt \in SweepDeltas, pressed \in SweepKeys : BeginFrame(dt, pressed, FALSE, NoCursor)

NextSweep ==
    \/ BeginSweepFrame
    \/ player_movement_system
    \/ enemy_movement_system
    \/ EndFrame

SpecSweep == InitSweep /\ [][NextSweep]_vars

\* C4: a sweep with both components non-zero whose X-only candidate position
\* overlaps a Wall tile and whose Y-only candidate position (X unchanged)
\* overlaps none ends at the Y-only candidate: nothing on X, all of the
\* requested Y.
WallSlide ==
    \A b \in Sweeps :
        (/\ b.step.move.x # 0 /\ b.step.move.y # 0
         /\ OverlapsWall(CandidateX(b.step), b.size)
         /\ ~OverlapsWall(CandidateY(b.step), b.size))
            => b.step.to = CandidateY(b.step)

WallSlideWitness ==
    \E b \in Sweeps :
        /\ b.step.move.x # 0 /\ b.step.move.y # 0
        /\ OverlapsWall(CandidateX(b.step), b.size)
        /\ ~OverlapsWall(CandidateY(b.step), b.size)
        /\ b.step.collision_x /\ b.step.tested_y
        /\ b.step.to.x = b.step.from.x
        /\ b.step.to.y # b.step.from.y

\* C5: a sweep asked for nothing on an axis does not query the walls for that
\* axis and leaves the coordinate as it was; with no key down, and for an enemy
\* at the player's position, that is both axes, frame after frame.
ZeroRequestStaysPut ==
    \A b \in Sweeps :
        /\ b.step.move.x = 0 => ~b.step.tested_x /\ b.step.to.x = b.step.from.x
        /\ b.step.move.y = 0 => ~b.step.tested_y /\ b.step.to.y = b.step.from.y

ZeroRequestStaysPutWitness ==
    /\ frame = 2
    /\ keys = {}
    /\ time_delta > 0
    /\ steps.player # NoStep
    /\ steps.player.move = Vec2Zero
    /\ steps.player.to = steps.player.from
    /\ steps.enemies # <<>>
    /\ steps.enemies[1].from = player.translation
    /\ steps.enemies[1].move = Vec2Zero
    /\ steps.enemies[1].to = steps.enemies[1].from


\* ------------------------------------------------------------------------
\* Shooting: a session with ArenaPlugin and PlayerPlugin, picked up between
\* two frames with the player at a place it has walked to.

\* The origin, and (-10, 0), against the wall tile (5, 6) on its left.
ShootStarts ==
    { Vec2(c[1] * UnitTicks, c[2] * UnitTicks) : c \in {<<0, 0>>, <<-10, 0>>} }

\* Where the cursor is, in pixels from the window's top left corner: at the
\* world's (-100, 0), origin and (60, 60).
Cursors == {Vec2(540, 360), Vec2(640, 360), Vec2(700, 300)}

\* Frame lengths: none, 1/60 s and the longest.
ShootDeltas == {0, (5 * UnitTicks) \div 4, MaxDelta}

MaxShots == 2
MaxShootFrames == 3

InitShoot ==
    /\ strategy = "cave"
    /\ width = ARENA_WIDTH_TILES
    /\ height = ARENA_HEIGHT_TILES
    /\ seed \in ArenaSeeds
    /\ obstacle_prob = 0
    /\ grid = CaveGenerate(seed, width, height)
    /\ gen_pc = "done"
    /\ pass = SMOOTHING_ITERATIONS
    /\ probe = NoProbe
    /\ active = {"setup_arena", "spawn_player"} \cup ShootingSystems
    /\ phase = "idle"
    /\ frame = 0
    /\ time_delta = 0
    /\ keys = {}
    /\ mouse_left = FALSE
    /\ cursor = NoCursor
    /\ ran = {}
    /\ player \in { Body(at) :
                      at \in { c \in ShootStarts :
                                 ~OverlapsWallOf(grid, width, height, c,
                                                 Vec2Splat(PLAYER_SPRITE_SIZE)) } }
    /\ enemies = <<>>
    /\ projectiles = {}
    /\ next_entity = 0
    /\ commands = {}
    /\ steps = NoSteps

BeginShootFrame ==
    /\ frame < MaxShootFrames
    /\ \E dt \in ShootDeltas, click \in BOOLEAN, at \in Cursors \cup {NoCursor} :
          /\ click => next_entity < MaxShots
          /\ BeginFrame(dt, {}, click, at)

NextShoot ==
    \/ BeginShootFrame
    \/ player_aiming_system
    \/ player_shooting_system
    \/ projectile_movement_system
    \/ projectile_lifetime_system
    \/ EndFrame

SpecShoot == InitShoot /\ [][NextShoot]_vars

ProjectileSize == Vec2(PROJECTILE_SPRITE_WIDTH, PROJECTILE_SPRITE_HEIGHT)

\* C9: whenever the proposed next position of a projectile overlaps a Wall
\* tile, the projectile is not advanced in that step and its despawn is
\* queued, so that it is gone when the frame ends; a projectile shot into the
\* wall next to the player goes that way on its first step.
ProjectileStopsAtWall ==
    \A d \in steps.projectiles :
        OverlapsWall(d.next_pos_2d, ProjectileSize)
            => /\ d.to = d.from
               /\ phase = "frame" =>
                     /\ [op |-> "despawn", entity |-> d.entity] \in commands
                     /\ \A p \in projectiles : p.entity = d.entity => p.translation = d.from
               /\ phase = "idle" => \A p \in projectiles : p.entity # d.entity

ProjectileStopsAtWallWitness ==
    /\ phase = "idle"
    /\ time_delta > 0
    /\ \E d \in steps.projectiles :
          /\ d.first
          /\ OverlapsWall(d.next_pos_2d, ProjectileSize)
          /\ d.next_pos_2d # d.from
          /\ d.to = d.from
          /\ \A p \in projectiles : p.entity # d.entity


\* ------------------------------------------------------------------------
\* The room generator on grids too small for its room.

\* C11: when the requested width or height is smaller than twice the padding
\* or smaller than the minimum room size, the room generator does not fail:
\* the room's size is the requested size less the padding, raised to the
\* minimum room size, and the grid returned has the requested width and
\* height.
SmallRoomIsClamped ==
    (/\ strategy = "room"
     /\ \/ width < 2 * ROOM_PADDING_TILES \/ width < MIN_ROOM_SIZE_TILES
        \/ height < 2 * ROOM_PADDING_TILES \/ height < MIN_ROOM_SIZE_TILES)
        => /\ gen_pc # "panicked"
           /\ gen_pc # "start" =>
                 /\ RoomGeom(width, height).room_width
                       = U(Max(width - 2 * ROOM_PADDING_TILES, MIN_ROOM_SIZE_TILES))
                 /\ RoomGeom(width, height).room_height
                       = U(Max(height - 2 * ROOM_PADDING_TILES, MIN_ROOM_SIZE_TILES))
           /\ gen_pc = "done" =>
                 /\ DOMAIN grid = 0..(height - 1)
                 /\ \A y \in DOMAIN grid : DOMAIN grid[y] = 0..(width - 1)


\* ------------------------------------------------------------------------
\* The spatial query on its own: get_nearby_wall_positions_world of player.rs
\* and of enemy.rs, called on the grid of a generated arena for boxes in and
\* around it.

\* arena.rs 166-169: where setup_arena puts the sprite of wall tile (x, y).
WallSpritePosition(x, y) ==
    Vec2(FAdd(FSub(x * TILE_SIZE, (ARENA_WIDTH_TILES * TILE_SIZE) \div 2), TILE_SIZE \div 2),
         FAdd(FSub(y * TILE_SIZE, (ARENA_HEIGHT_TILES * TILE_SIZE) \div 2), TILE_SIZE \div 2))

\* Box centres: every 5 units on x and every 5 units from 2.5 on y, so that
\* boxes touching a tile's face are among them, up to WorldLimit; and the
\* same two ticks further.
QueryReach == WorldLimit \div (5 * UnitTicks)
QueryPoints ==
    { Vec2(5 * UnitTicks * i + ox, 5 * UnitTicks * j + (5 * UnitTicks) \div 2 + oy) :
        i \in (-QueryReach)..QueryReach, j \in (-QueryReach)..(QueryReach - 1),
        ox \in {0, 2}, oy \in {0, -2} }
QuerySizes == {Vec2Splat(PLAYER_SPRITE_SIZE), ProjectileSize}

InitQuery ==
    /\ strategy = "cave"
    /\ width = ARENA_WIDTH_TILES
    /\ height = ARENA_HEIGHT_TILES
    /\ seed \in ArenaSeeds
    /\ obstacle_prob = 0
    /\ grid = CaveGenerate(seed, width, height)
    /\ gen_pc = "done"
    /\ pass = SMOOTHING_ITERATIONS
    /\ probe = NoProbe
    /\ GameOff

CallGetNearbyWallPositionsWorld ==
    /\ strategy = "cave" /\ gen_pc = "done"
    /\ probe = NoProbe
    /\ \E object_pos_world \in QueryPoints, object_size \in QuerySizes :
          probe' = [fn |-> "get_nearby_wall_positions_world",
                    object_pos_world |-> object_pos_world,
                    object_size |-> object_size,
                    cells |-> SearchCells(object_pos_world, object_size, TILE_SIZE),
                    enemy_cells |-> SearchCells(object_pos_world, object_size, TILE_SIZE \div 2),
                    result |-> get_nearby_wall_positions_world(object_pos_world, object_size,
                                                               grid),
                    enemy_result |->
                        enemy_get_nearby_wall_positions_world(object_pos_world, object_size,
                                                              grid)]
    /\ UNCHANGED <<gen_vars, game_vars>>

SpecQuery == InitQuery /\ [][CallGetNearbyWallPositionsWorld]_vars

IsQuery == probe.fn = "get_nearby_wall_positions_world"

\* The box of the arena in world space.
OutsideArena(pos, size) ==
    \/ pos.x - size.x \div 2 >= -ArenaOffset.x \/ pos.x + size.x \div 2 <= ArenaOffset.x
    \/ pos.y - size.y \div 2 >= -ArenaOffset.y \/ pos.y + size.y \div 2 <= ArenaOffset.y

\* C12: both queries read only cells inside the grid, wherever the box is; a
\* window that misses the grid reads none and returns no wall.
QueryStaysInGrid ==
    IsQuery =>
        /\ \A c \in probe.cells \cup probe.enemy_cells :
              c[2] \in DOMAIN grid /\ c[1] \in DOMAIN grid[c[2]]
        /\ CellsUnclamped(probe.object_pos_world, probe.object_size, TILE_SIZE)
              \cap ((0..(width - 1)) \X (0..(height - 1))) = {}
                 => probe.cells = {} /\ probe.result = {}

QueryStaysInGridWitness ==
    /\ IsQuery
    /\ OutsideArena(probe.object_pos_world, probe.object_size)
    /\ probe.cells # {}
    /\ \E c \in CellsUnclamped(probe.object_pos_world, probe.object_size, TILE_SIZE) :
          c[1] >= width /\ c[2] < 0



\* ------------------------------------------------------------------------
\* A session in which the player walks from its spawn to the left border.

\* Frame lengths and keys: up to row 7, left along it, down-left into row 6,
\* left to tile (1, 6) next to the border ring, and left once more with the
\* longest frame (player speed 150: 37.5 units, the tile and the body being
\* 15 and 10).
WalkInputs ==
    << {[dt |-> (15 * UnitTicks) \div 2, keys |-> {"up"}], [dt |-> 0, keys |-> {}]},
       {[dt |-> MaxDelta, keys |-> {"left"}]},
       {[dt |-> 11 * UnitTicks, keys |-> {"left", "down"}]},
       {[dt |-> (55 * UnitTicks) \div 4, keys |-> {"left"}]},
       {[dt |-> MaxDelta, keys |-> {"left"}], [dt |-> (15 * UnitTicks) \div 2, keys |-> {"left"}]} >>

BeginWalkFrame ==
    /\ frame < Len(WalkInputs)
    /\ \E i \in WalkInputs[frame + 1] : BeginFrame(i.dt, i.keys, FALSE, NoCursor)

NextWalk ==
    \/ setup_arena
    \/ spawn_player
    \/ spawn_enemies
    \/ EnterInGame
    \/ BeginWalkFrame
    \/ player_movement_system
    \/ enemy_movement_system
    \/ EndFrame

SpecWalk == InitMove /\ [][NextWalk]_vars

\* Whether a point lies in the world-space extent of the grid.
InsideArenaExtent(pos) ==
    /\ ArenaOffset.x <= pos.x /\ pos.x <= -ArenaOffset.x
    /\ ArenaOffset.y <= pos.y /\ pos.y <= -ArenaOffset.y

\* C13: whatever the keys and the frame times, the player and every enemy stay
\* inside the world-space extent of the grid: no sweep takes a body through
\* the ring of Wall tiles on the border.
BodiesStayInsideTheGrid ==
    /\ player # NoPlayer => InsideArenaExtent(player.translation)
    /\ \A i \in DOMAIN enemies : InsideArenaExtent(enemies[i].translation)


\* ------------------------------------------------------------------------
\* The life of a projectile: the shooting session followed, with frames of
\* positive length, until every projectile shot in its first frames has had
\* its two seconds.

\* Frame lengths: the longest (0.25 s) and half of it.
LifeDeltas == {MaxDelta, MaxDelta \div 2}

\* The mouse is clicked in the first frames only; the cursor is in the window
\* in the first frame and outside it afterwards, so that the aim stays.
LastShotFrame == 2
MaxLifeFrames ==
    LastShotFrame + CeilDiv(PROJECTILE_LIFETIME_SECONDS, MaxDelta \div 2) + 1

BeginLifeFrame ==
    /\ frame < MaxLifeFrames
    /\ \E dt \in LifeDeltas, click \in BOOLEAN, at \in Cursors \cup {NoCursor} :
          /\ click => frame < LastShotFrame /\ next_entity < MaxShots
          /\ at # NoCursor => frame = 0
          /\ BeginFrame(dt, {}, click, at)

NextLife ==
    \/ BeginLifeFrame
    \/ player_aiming_system
    \/ player_shooting_system
    \/ projectile_movement_system
    \/ projectile_lifetime_system
    \/ EndFrame

\* The app's loop runs frame after frame and the schedule runs every system
\* of a frame.
SpecLife == InitShoot /\ [][NextLife]_vars /\ WF_vars(NextLife)

Exists(entity) == \E p \in projectiles : p.entity = entity

Finished(p) == p.elapsed >= PROJECTILE_LIFETIME_SECONDS

\* C14: a projectile is removed only by a despawn queued for a wall at its
\* proposed position or for its finished lifetime; with frames of positive
\* length every projectile spawned is despawned in the end; and a projectile
\* whose lifetime has finished exists only until the end of the frame in which
\* it finished.
ProjectileIsDespawned ==
    /\ [][\A p \in projectiles :
             ~Exists(p.entity)' =>
                 /\ [op |-> "despawn", entity |-> p.entity] \in commands
                 /\ \/ Finished(p)
                    \/ \E d \in steps.projectiles :
                          d.entity = p.entity /\ d.collision_detected]_vars
    /\ \A entity \in 0..(MaxShots - 1) : Exists(entity) ~> ~Exists(entity)
    /\ [](\A p \in projectiles :
             Finished(p) =>
                 /\ phase = "frame"
                 /\ "projectile_lifetime_system" \in ran
                 /\ [op |-> "despawn", entity |-> p.entity] \in commands)

\* A projectile that left the arena over the border ring and flew on is
\* despawned by its timer.
ProjectileIsDespawnedWitness ==
    \E p \in projectiles :
        /\ Finished(p)
        /\ [op |-> "despawn", entity |-> p.entity] \in commands
        /\ ~InsideArenaExtent(p.translation)
        /\ \A d \in steps.projectiles : d.entity = p.entity => ~d.collision_detected


\* C15: the systems of a frame run in the order player movement, aiming,
\* shooting, projectile movement, projectile lifetime, enemy movement, each
\* seeing what the ones before it committed: an enemy moves towards the place
\* the player has moved to in the frame, and a projectile is spawned along the
\* aim taken in the frame, so a frame has one outcome.
FrameOrderIsFixed ==
    /\ (phase = "frame" /\ steps.player # NoStep) =>
           \A i \in DOMAIN steps.enemies :
               steps.enemies[i].to =
                   EnemyStep(Body(steps.enemies[i].from), steps.player.to, time_delta, grid).to
    /\ (phase = "frame" /\ {"player_aiming_system", "player_shooting_system"} \subseteq ran) =>
           \A c \in commands :
               c.op = "spawn_projectile" => c.projectile.direction = player.heading


\* ------------------------------------------------------------------------
\* The smoothing passes of the cave generator, over SpecGen.

\* The number of Wall cells among the 8 around an interior cell.
WallsAround(g, x, y) == Cardinality({ c \in Around(x, y) : g[c[2]][c[1]] = Wall })

InteriorCells ==
    { c \in GridCells :
        c[1] >= 1 /\ c[1] < width - 1 /\ c[2] >= 1 /\ c[2] < height - 1 }

\* C16: a smoothing pass takes every count on the grid the pass started with:
\* an interior Wall cell with fewer than 4 Wall cells around it becomes Floor,
\* an interior Floor cell with at least 5 becomes Wall, and every other cell,
\* the border cells among them, keeps its value.
SmoothingReadsThePreviousGrid ==
    [][pass' = pass + 1 =>
          \A c \in GridCells :
              grid'[c[2]][c[1]] =
                  IF c \in InteriorCells /\ grid[c[2]][c[1]] = Wall
                        /\ WallsAround(grid, c[1], c[2]) < 4
                  THEN Floor
                  ELSE IF c \in InteriorCells /\ grid[c[2]][c[1]] = Floor
                             /\ WallsAround(grid, c[1], c[2]) >= 5
                       THEN Wall
                       ELSE grid[c[2]][c[1]]]_vars

\* After the first pass: a Wall of the noise that became Floor, a Floor that
\* became Wall, and a cell that kept its value although the cell before it in
\* the row had changed and the count taken on the rewritten row would have
\* changed it too.
SmoothingReadsThePreviousGridWitness ==
    /\ strategy = "cave" /\ gen_pc = "smooth" /\ pass = 1
    /\ \E c \in InteriorCells :
          NoiseGrid(seed, width, height)[c[2]][c[1]] = Wall /\ grid[c[2]][c[1]] = Floor
    /\ \E c \in InteriorCells :
          NoiseGrid(seed, width, height)[c[2]][c[1]] = Floor /\ grid[c[2]][c[1]] = Wall
    /\ \E c \in InteriorCells :
          /\ <<c[1] - 1, c[2]>> \in InteriorCells
          /\ NoiseGrid(seed, width, height)[c[2]][c[1] - 1] # grid[c[2]][c[1] - 1]
          /\ NoiseGrid(seed, width, height)[c[2]][c[1]] = grid[c[2]][c[1]]
          /\ grid[c[2]][c[1]] = Floor
          /\ WallsAround(NoiseGrid(seed, width, height), c[1], c[2]) = 4
          /\ grid[c[2]][c[1] - 1] = Wall


\* arena.rs 164-169: each cell of the arena with the place setup_arena gives
\* the sprite of a wall tile there.
SpritePositions ==
    { [cell |-> t, at |-> WallSpritePosition(t[1], t[2])] :
        t \in (0..(ARENA_WIDTH_TILES - 1)) \X (0..(ARENA_HEIGHT_TILES - 1)) }

\* arena.rs 164-176: the positions of the wall sprites setup_arena spawns.
WallSprites ==
    { p.at : p \in { q \in SpritePositions : grid[q.cell[2]][q.cell[1]] = Wall } }

\* Whether the box of a body and the box of the tile centred at wall have
\* interior points in common (the sizes are even numbers of ticks).
BoxesOverlap(pos, size, wall) ==
    /\ Abs(pos.x - wall.x) < (size.x + TILE_SIZE) \div 2
    /\ Abs(pos.y - wall.y) < (size.y + TILE_SIZE) \div 2

\* C17: for a body anywhere, the query with the margin of a tile and the one
\* with the margin of half a tile both return the centre of every Wall tile of
\* the grid that the body's box overlaps, so that the collision loops over the
\* two results come to the same verdict; and every position returned is the
\* place where setup_arena puts the sprite of a Wall tile of the grid.
QueryMissesNoWall ==
    IsQuery =>
        \E sprites \in {WallSprites} :
            /\ \A wall \in sprites :
                  BoxesOverlap(probe.object_pos_world, probe.object_size, wall)
                      => wall \in probe.result /\ wall \in probe.enemy_result
            /\ (\E wall_pos_world \in probe.result :
                   check_aabb_collision(probe.object_pos_world, probe.object_size,
                                        wall_pos_world, Vec2Splat(TILE_SIZE)))
               <=> (\E wall_pos_world \in probe.enemy_result :
                       enemy_check_aabb_collision(probe.object_pos_world, probe.object_size,
                                                  wall_pos_world, Vec2Splat(TILE_SIZE)))
            /\ probe.result \cup probe.enemy_result \subseteq sprites

\* A body overlapping a Wall tile, with a Wall tile in the result of the
\* wider query that the narrower one leaves out.
QueryMissesNoWallWitness ==
    /\ IsQuery
    /\ \E wall \in probe.enemy_result :
          BoxesOverlap(probe.object_pos_world, probe.object_size, wall)
    /\ probe.enemy_result # probe.result


=============================================================================
